---- MODULE Spec2Model ----
(***************************************************************************)
(* The staged slide presenter (typeview): class Slide with its stage       *)
(* rendering, and class TypeView with its navigation state machine, its    *)
(* batch playthrough and its interactive key loop.                         *)
(*                                                                         *)
(* JavaScript strings are sequences of one-character strings; arrays are   *)
(* sequences; array indices stay 0-based as in the source, so the element  *)
(* at source index i is the sequence element i + 1.                        *)
(***************************************************************************)
EXTENDS Integers, Sequences, FiniteSets, TLC

VARIABLES
    slides,         \* TypeView.slides: the deck, a sequence of Slide
    index,          \* TypeView.index: the current slide index (0-based)
    running,        \* TypeView.running
    stagePerSlide,  \* TypeView.stagePerSlide: one stage cursor per slide
    opts,           \* TypeView.opts: the options fixed by the constructor
    isTTY,          \* process.stdin.isTTY
    rawMode,        \* process.stdin is in raw mode
    listener,       \* the number of onData listeners attached to process.stdin
    runPc,          \* where the last run() call is
    inflight,       \* renders of key handlers suspended in a renderer
    stdout,         \* what has been written to process.stdout, in order
    ret,            \* the outcome of the latest next() / prev() call
    thrown,         \* the latest error thrown by a public call, or "none"
    unhandled,      \* an onData call was rejected (nothing awaits it)
    visited,        \* the slide indices shown so far by interactive runs
    leftAt,         \* per slide, the cursor it had when it was last left
    keyed,          \* some key has been dispatched to onData
    lastRun,        \* how the latest run() call went, "none" before the first
    probeSlide,     \* the Slide whose renderStage is called directly
    probeStage,     \* the argument of the latest direct renderStage call
    probeOut        \* the outcome of the latest direct renderStage call

vars == <<slides, index, running, stagePerSlide, opts, isTTY, rawMode,
          listener, runPc, inflight, stdout, ret, thrown, unhandled, visited,
          leftAt, keyed, lastRun, probeSlide, probeStage, probeOut>>

deckVars == <<slides, index, running, stagePerSlide, opts, isTTY, rawMode,
              listener, runPc, inflight, stdout, ret, thrown, unhandled,
              visited, leftAt, keyed, lastRun>>

probeVars == <<probeSlide, probeStage, probeOut>>

(***************************************************************************)
(* Bounds of the model.                                                    *)
(***************************************************************************)
\* the longest deck addSlide builds
MaxSlides == 3
\* a run or a key starts a frame only while fewer frames have been started
MaxFrames == 4
\* the most key-handler renders suspended at once
MaxInFlight == 2
\* the most stages of a Slide whose renderStage is called directly
MaxStages == 3
\* how far beyond either end of the stage range renderStage is called
MaxOver == 2
\* how often the advance key is pressed at the end of the deck
MaxBoundary == 2

(***************************************************************************)
(* Strings and arrays.                                                     *)
(***************************************************************************)
LF == "\n"
CR == "\r"

Max(a, b) == IF a >= b THEN a ELSE b
Min(a, b) == IF a <= b THEN a ELSE b

\* the decimal digit of a small number, as "${n}" formats it
Digit(n) == CASE n = 0 -> "0" [] n = 1 -> "1" [] n = 2 -> "2" [] n = 3 -> "3"
              [] n = 4 -> "4" [] n = 5 -> "5" [] n = 6 -> "6" [] n = 7 -> "7"
              [] n = 8 -> "8" [] OTHER -> "9"

RECURSIVE Flatten(_)
\* Array.prototype.flat of an array of arrays
Flatten(ss) == IF ss = <<>> THEN <<>> ELSE Head(ss) \o Flatten(Tail(ss))

RECURSIVE join(_, _)
\* Array.prototype.join
join(lines, sep) ==
    IF lines = <<>> THEN <<>>
    ELSE IF Len(lines) = 1 THEN Head(lines)
    ELSE Head(lines) \o sep \o join(Tail(lines), sep)

\* the text before a line break, without the "\r" the pattern \r?\n takes
StripCR(cur) ==
    IF cur /= <<>> /\ cur[Len(cur)] = CR THEN SubSeq(cur, 1, Len(cur) - 1)
    ELSE cur

RECURSIVE SplitFrom(_, _, _)
SplitFrom(s, cur, out) ==
    IF s = <<>> THEN Append(out, cur)
    ELSE IF Head(s) = LF THEN SplitFrom(Tail(s), <<>>, Append(out, StripCR(cur)))
    ELSE SplitFrom(Tail(s), Append(cur, Head(s)), out)

\* s.split(/\r?\n/)
splitLines(s) == SplitFrom(s, <<>>, <<>>)

(***************************************************************************)
(* Content: string | string[] | undefined.  v holds the strings: exactly   *)
(* one for a string, the elements for an array, none for undefined.        *)
(***************************************************************************)
Undef == [t |-> "undef", v |-> <<>>]
Str(s) == [t |-> "str", v |-> <<s>>]
Arr(ss) == [t |-> "arr", v |-> ss]

\* normalizeToLines(input?: string | string[]): string[]
normalizeToLines(input) ==
    IF input.t = "undef" \/ (input.t = "str" /\ input.v[1] = <<>>) THEN <<>>
    ELSE IF input.t = "arr"
         THEN Flatten([k \in 1..Len(input.v) |-> splitLines(input.v[k])])
    ELSE splitLines(input.v[1])

(***************************************************************************)
(* Renderers.  A renderer is opaque code; the model knows one by its tag.  *)
(* A stage renderer's text is its tag followed by the stage index it was   *)
(* called with, which makes the argument it receives visible.  A slide     *)
(* renderer takes no argument and returns its tag.                         *)
(***************************************************************************)
NoRender == [t |-> "undef", tag |-> ""]
Fn(tag) == [t |-> "fn", tag |-> tag]

\* st.render({stage, totalStages, slide})
CallStageRender(r, stage, totalStages) == <<r.tag, Digit(stage)>>

\* this.render() of a slide without stages
CallSlideRender(r) == <<r.tag>>

(***************************************************************************)
(* class Slide                                                             *)
(***************************************************************************)
MkStage(content, render, mode) ==
    [content |-> content, render |-> render, mode |-> mode]

MkOptions(title, header, footer, content, stages, render) ==
    [title |-> title, header |-> header, footer |-> footer,
     content |-> content, stages |-> stages, render |-> render]

\* a bug: only the payload is tested, if (!ctx) throw
SlideThrowsNever(ctx) == FALSE

\* Slide.constructor's check: if (!ctx || !ctx.title) throw.  A missing
\* title and an empty one are both falsy; both are the empty text here
SlideThrows(ctx) == ctx.title = <<>>

\* Slide.constructor: the fields of the new Slide.  render is kept only
\* when there are no stages; "default" is () => this.defaultRender()
NewSlide(ctx) ==
    [title |-> ctx.title, header |-> ctx.header, footer |-> ctx.footer,
     content |-> ctx.content, stages |-> ctx.stages,
     render |-> IF Len(ctx.stages) = 0
                THEN (IF ctx.render.t = "undef" THEN [t |-> "default", tag |-> ""]
                      ELSE ctx.render)
                ELSE NoRender]

\* get stageCount(): Math.max(1, this._stages.length || 1)
stageCount(slide) ==
    Max(1, IF Len(slide.stages) = 0 THEN 1 ELSE Len(slide.stages))

\* hasStages()
hasStages(slide) == Len(slide.stages) > 0

\* defaultRender()
defaultRender(slide) ==
    IF slide.content.t = "str" THEN slide.content.v[1]
    ELSE IF slide.content.t = "arr" THEN join(slide.content.v, <<LF>>)
    ELSE <<>>

\* the outcome of an async call: a text, or a thrown error
Ok(text) == [ok |-> TRUE, text |-> text]
Threw == [ok |-> FALSE, text |-> <<>>]

\* renderStage's helper renderOne(idx), called while stage sIndex is selected
renderOne(slide, idx, sIndex) ==
    LET st == slide.stages[idx + 1]
    IN  IF st.render.t = "fn"
        THEN normalizeToLines(
                 Str(CallStageRender(st.render, sIndex, Len(slide.stages))))
        ELSE normalizeToLines(st.content)

\* a bug: the requested index is used as it is
ClampStageNone(slide, stage) == stage

\* Math.max(0, Math.min(stage, this._stages.length - 1))
ClampStage(slide, stage) == Max(0, Min(stage, Len(slide.stages) - 1))

\* mode === "replace": base + only the current stage
ReplaceLines(slide, sIndex) ==
    normalizeToLines(slide.content) \o renderOne(slide, sIndex, sIndex)

\* a bug: the loop stops one stage early (i < sIndex)
AccumulateLinesShort(slide, sIndex) ==
    normalizeToLines(slide.content)
        \o Flatten([k \in 1..sIndex |-> renderOne(slide, k - 1, sIndex)])

\* accumulate: base + all stages up to current (for i = 0; i <= sIndex)
AccumulateLines(slide, sIndex) ==
    normalizeToLines(slide.content)
        \o Flatten([k \in 1..(sIndex + 1) |-> renderOne(slide, k - 1, sIndex)])

\* a bug: append carries the earlier stages over
AppendLinesCarry(slide, sIndex) == AccumulateLines(slide, sIndex)

\* mode === "append": base + only the current stage
AppendLines(slide, sIndex) ==
    normalizeToLines(slide.content) \o renderOne(slide, sIndex, sIndex)

\* renderStage(stage), for a slide that has stages
RenderStaged(slide, stage) ==
    LET sIndex == ClampStage(slide, stage)
    IN  IF sIndex + 1 \notin DOMAIN slide.stages
        THEN Threw   \* current is undefined: current.mode throws a TypeError
        ELSE
        LET current == slide.stages[sIndex + 1]
            mode == IF current.mode = "undef" THEN "accumulate" ELSE current.mode
        IN  IF mode = "replace"
            THEN Ok(join(ReplaceLines(slide, sIndex), <<LF>>))
            ELSE IF mode = "append"
            THEN Ok(join(AppendLines(slide, sIndex), <<LF>>))
            ELSE Ok(join(AccumulateLines(slide, sIndex), <<LF>>))

\* a bug: the custom renderer is ignored
RenderUnstagedDefault(slide) == Ok(defaultRender(slide))

\* renderStage(stage), for a slide without stages
RenderUnstaged(slide) ==
    IF slide.render.t = "fn" THEN Ok(CallSlideRender(slide.render))
    ELSE Ok(defaultRender(slide))

\* async renderStage(stage: number): Promise<string>
renderStage(slide, stage) ==
    IF ~hasStages(slide) THEN RenderUnstaged(slide)
    ELSE RenderStaged(slide, stage)

(***************************************************************************)
(* class TypeView: what addSlide is called with.                           *)
(***************************************************************************)
\* a slide without stages, shown by defaultRender
PlainOptions ==
    MkOptions(<<"P">>, Undef, Undef, Str(<<"p">>), <<>>, NoRender)

\* two stages of static content
TwoStageOptions ==
    MkOptions(<<"S">>, Undef, Undef, Str(<<"s">>),
              <<MkStage(Str(<<"A">>), NoRender, "undef"),
                MkStage(Str(<<"B">>), NoRender, "replace")>>, NoRender)

\* three stages, the second one produced by a renderer
ThreeStageOptions ==
    MkOptions(<<"R">>, Undef, Undef, Undef,
              <<MkStage(Str(<<"A">>), NoRender, "accumulate"),
                MkStage(Undef, Fn("x"), "replace"),
                MkStage(Str(<<"C">>), NoRender, "accumulate")>>, NoRender)

\* a payload without a title
UntitledOptions ==
    MkOptions(<<>>, Undef, Undef, Str(<<"u">>), <<>>, NoRender)

SlideInputs ==
    {PlainOptions, TwoStageOptions, ThreeStageOptions, UntitledOptions}

\* the stages renderStage(stage) realizes with renderOne
RealizedStages(slide, stage) ==
    LET sIndex == ClampStage(slide, stage)
        mode == slide.stages[sIndex + 1].mode
    IN  IF mode \in {"replace", "append"} THEN {sIndex} ELSE 0..sIndex

\* renderStage(stage) awaits a renderer: the call may stay pending while
\* other events are handled, and may be rejected
CallsRenderer(slide, stage) ==
    IF ~hasStages(slide) THEN slide.render.t = "fn"
    ELSE \E k \in RealizedStages(slide, stage) : slide.stages[k + 1].render.t = "fn"

(***************************************************************************)
(* process.stdout.  A frame is written in two parts: renderCurrent writes  *)
(* the head (clear, indicator, header, slide title) before it awaits       *)
(* renderStage, and the tail (body, footer, notice, controls) after.       *)
(***************************************************************************)
HeadOf(i, stage, notice) ==
    [part |-> "head", slide |-> i, stage |-> stage, notice |-> notice,
     body |-> <<>>]

TailOf(i, stage, notice) ==
    [part |-> "tail", slide |-> i, stage |-> stage, notice |-> notice,
     body |-> renderStage(slides[i + 1], stage).text]

ExitNotice ==
    [part |-> "exit", slide |-> 0, stage |-> 0, notice |-> "", body |-> <<>>]

\* the frames started so far
Heads(out) == {k \in 1..Len(out) : out[k].part = "head"}

\* the frames completed so far, as <<slide, stage>> in the order written
Frames(out) ==
    LET ks == {k \in 1..Len(out) : out[k].part = "tail"}
        RECURSIVE Collect(_)
        Collect(k) ==
            IF k > Len(out) THEN <<>>
            ELSE IF k \in ks THEN <<(<<out[k].slide, out[k].stage>>)>> \o Collect(k + 1)
            ELSE Collect(k + 1)
    IN  Collect(1)

(***************************************************************************)
(* class TypeView: the state after the constructor                         *)
(***************************************************************************)
NoRet == [op |-> "none", val |-> "none"]
Idle == [pc |-> "idle", i |-> 0, st |-> 0]
NoProbe == [called |-> FALSE, ok |-> FALSE, text |-> <<>>]

\* TypeView.constructor: this.opts, each option given or at its default.
\* title, header and footer are texts, "" by default
MkViewOptions(title, header, footer, clearOnRender, showControls, showSlideIndicator, showStageIndicator, keyboardNavigation, exitOnLastSlide, nonInteractiveStages) ==
    [title |-> title, header |-> header, footer |-> footer,
     clearOnRender |-> clearOnRender, showControls |-> showControls,
     showSlideIndicator |-> showSlideIndicator,
     showStageIndicator |-> showStageIndicator,
     keyboardNavigation |-> keyboardNavigation,
     exitOnLastSlide |-> exitOnLastSlide,
     nonInteractiveStages |-> nonInteractiveStages]

\* new TypeView() without options
DefaultOptions ==
    MkViewOptions(<<>>, <<>>, <<>>, TRUE, TRUE, TRUE, TRUE, TRUE, FALSE, "all")

\* the options of the presenters that are run: those that decide the mode,
\* the end of the loop and the batch expansion are given, the others are
\* at their defaults
OptionSets ==
    {MkViewOptions(<<>>, <<>>, <<>>, TRUE, TRUE, TRUE, TRUE, k, e, n) :
        k \in BOOLEAN, e \in BOOLEAN, n \in {"all", "final"}}

InitDeck ==
    /\ slides = <<>>
    /\ index = 0
    /\ running = FALSE
    /\ stagePerSlide = <<>>
    /\ opts \in OptionSets
    /\ isTTY \in BOOLEAN
    /\ rawMode = FALSE
    /\ listener = 0
    /\ runPc = Idle
    /\ inflight = <<>>
    /\ stdout = <<>>
    /\ ret = NoRet
    /\ thrown = "none"
    /\ unhandled = FALSE
    /\ visited = {}
    /\ leftAt = <<>>
    /\ keyed = FALSE
    /\ lastRun = "none"

Init ==
    /\ InitDeck
    /\ probeSlide = NewSlide(PlainOptions)
    /\ probeStage = 0
    /\ probeOut = NoProbe

(***************************************************************************)
(* addSlide(slideOrInit)                                                   *)
(***************************************************************************)
addSlide(ctx) ==
    /\ runPc.pc = "idle"
    /\ Len(slides) < MaxSlides
    /\ IF SlideThrows(ctx)
       THEN /\ thrown' = "TypeError"
            /\ UNCHANGED <<slides, stagePerSlide, leftAt>>
       ELSE /\ slides' = Append(slides, NewSlide(ctx))
            /\ stagePerSlide' = Append(stagePerSlide, 0)
            /\ leftAt' = Append(leftAt, -1)
            /\ thrown' = "none"
    /\ UNCHANGED <<index, running, opts, isTTY, rawMode, listener, runPc,
                   inflight, stdout, ret, unhandled, visited, keyed>>
    /\ UNCHANGED probeVars
    /\ UNCHANGED lastRun

(***************************************************************************)
(* run(): the batch playthrough                                            *)
(***************************************************************************)
\* a bug: the keyboardNavigation option is not consulted
BatchModeTTYOnly == ~isTTY

\* !isTTY || !this.opts.keyboardNavigation
BatchMode == ~isTTY \/ ~opts.keyboardNavigation

\* the inner loop runs: slide.hasStages() && nonInteractiveStages === "all"
Expands(slide) == hasStages(slide) /\ opts.nonInteractiveStages = "all"

\* a bug: the final stage is taken to be stageCount
BatchStagePast(i, st) ==
    IF Expands(slides[i + 1]) THEN st ELSE stageCount(slides[i + 1])

\* the stage iteration <<i, st>> of the loop shows
BatchStage(i, st) ==
    IF Expands(slides[i + 1]) THEN st
    ELSE Max(0, stageCount(slides[i + 1]) - 1)

\* a bug: the inner loop runs while st <= stages
BatchAfterExtra(i, st) ==
    IF Expands(slides[i + 1]) /\ st + 1 <= stageCount(slides[i + 1])
    THEN [pc |-> "batch", i |-> i, st |-> st + 1]
    ELSE [pc |-> "batch", i |-> i + 1, st |-> 0]

\* the iteration after <<i, st>>
BatchAfter(i, st) ==
    IF Expands(slides[i + 1]) /\ st + 1 < stageCount(slides[i + 1])
    THEN [pc |-> "batch", i |-> i, st |-> st + 1]
    ELSE [pc |-> "batch", i |-> i + 1, st |-> 0]

\* iteration <<i, st>> up to the await of renderStage: the position is set
\* and the head of the frame written
BatchBegin(i, st, out) ==
    /\ index' = i
    /\ stagePerSlide' = [stagePerSlide EXCEPT ![i + 1] = BatchStage(i, st)]
    /\ stdout' = Append(out, HeadOf(i, BatchStage(i, st), ""))
    /\ runPc' = [pc |-> "batch", i |-> i, st |-> st]

\* a bug: run() does not test this.running
AlreadyRunningNever == FALSE

\* run()'s first line: if (this.running) return
AlreadyRunning == running

\* run() when nothing is running and the deck has slides, in batch mode
RunBatch ==
    /\ ~AlreadyRunning
    /\ Len(slides) > 0
    /\ BatchMode
    /\ Cardinality(Heads(stdout)) < MaxFrames
    /\ running' = TRUE
    /\ thrown' = "none"
    /\ BatchBegin(0, 0, stdout)
    /\ UNCHANGED <<slides, opts, isTTY, rawMode, listener, inflight, ret,
                   unhandled, visited, leftAt, keyed>>
    /\ UNCHANGED probeVars
    /\ lastRun' = "started"

\* the awaited renderStage returns: the tail of the frame is written and the
\* loop goes on to its next await, or ends
BatchResume ==
    /\ runPc.pc = "batch"
    /\ LET i == runPc.i
           st == runPc.st
           out == Append(stdout, TailOf(i, stagePerSlide[i + 1], ""))
           nx == BatchAfter(i, st)
       IN  IF nx.i < Len(slides)
           THEN /\ BatchBegin(nx.i, nx.st, out)
                /\ UNCHANGED running
           ELSE /\ stdout' = out
                /\ running' = FALSE
                /\ runPc' = [pc |-> "done", i |-> nx.i, st |-> 0]
                /\ UNCHANGED <<index, stagePerSlide>>
    /\ UNCHANGED <<slides, opts, isTTY, rawMode, listener, inflight, ret,
                   thrown, unhandled, visited, leftAt, keyed>>
    /\ UNCHANGED probeVars
    /\ UNCHANGED lastRun

\* the awaited renderStage is rejected by a renderer: run() is rejected
BatchReject ==
    /\ runPc.pc = "batch"
    /\ CallsRenderer(slides[runPc.i + 1], stagePerSlide[runPc.i + 1])
    /\ runPc' = [runPc EXCEPT !.pc = "failed"]
    /\ thrown' = "RenderError"
    /\ UNCHANGED <<slides, index, running, stagePerSlide, opts, isTTY,
                   rawMode, listener, inflight, stdout, ret, unhandled,
                   visited, leftAt, keyed>>
    /\ UNCHANGED probeVars
    /\ UNCHANGED lastRun

\* run() while running: if (this.running) return
RunWhileRunning ==
    /\ AlreadyRunning
    /\ lastRun' = "returned"
    /\ UNCHANGED <<slides, index, running, stagePerSlide, opts, isTTY,
                   rawMode, listener, runPc, inflight, stdout, ret, thrown,
                   unhandled, visited, leftAt, keyed>>
    /\ UNCHANGED probeVars

\* a bug: the deck is tested for emptiness after this.running = true
RunEmptyLate ==
    /\ ~AlreadyRunning
    /\ Len(slides) = 0
    /\ running' = TRUE
    /\ thrown' = "NoSlides"
    /\ lastRun' = "threw"
    /\ UNCHANGED <<slides, index, stagePerSlide, opts, isTTY, rawMode,
                   listener, runPc, inflight, stdout, ret, unhandled,
                   visited, leftAt, keyed>>
    /\ UNCHANGED probeVars

\* run() on an empty deck throws
RunEmpty ==
    /\ ~AlreadyRunning
    /\ Len(slides) = 0
    /\ thrown' = "NoSlides"
    /\ UNCHANGED <<slides, index, running, stagePerSlide, opts, isTTY,
                   rawMode, listener, runPc, inflight, stdout, ret,
                   unhandled, visited, leftAt, keyed>>
    /\ UNCHANGED probeVars
    /\ lastRun' = "threw"

(***************************************************************************)
(* next() and prev(): the position they set and the value they return.     *)
(* Both call renderCurrent() exactly when they move.                       *)
(***************************************************************************)
\* a bug: curStage <= lastStage
nextPastLast ==
    LET slide == slides[index + 1]
        curStage == stagePerSlide[index + 1]
        lastStage == stageCount(slide) - 1
    IN  IF curStage <= lastStage
        THEN [index |-> index,
              stagePerSlide |-> [stagePerSlide EXCEPT ![index + 1] = curStage + 1],
              moved |-> TRUE]
        ELSE IF index < Len(slides) - 1
        THEN [index |-> index + 1, stagePerSlide |-> stagePerSlide,
              moved |-> TRUE]
        ELSE [index |-> index, stagePerSlide |-> stagePerSlide,
              moved |-> FALSE]

\* a bug: the following slide is entered at its last stage
nextEntersLast ==
    LET slide == slides[index + 1]
        curStage == stagePerSlide[index + 1]
        lastStage == stageCount(slide) - 1
    IN  IF curStage < lastStage
        THEN [index |-> index,
              stagePerSlide |-> [stagePerSlide EXCEPT ![index + 1] = curStage + 1],
              moved |-> TRUE]
        ELSE IF index < Len(slides) - 1
        THEN [index |-> index + 1,
              stagePerSlide |-> [stagePerSlide EXCEPT
                                   ![index + 2] = stageCount(slides[index + 2]) - 1],
              moved |-> TRUE]
        ELSE [index |-> index, stagePerSlide |-> stagePerSlide,
              moved |-> FALSE]

\* a bug: the two tests are in the wrong order, the following slide is
\* entered before the stages of the current one are used up
nextLeavesEarly ==
    LET slide == slides[index + 1]
        curStage == stagePerSlide[index + 1]
        lastStage == stageCount(slide) - 1
    IN  IF index < Len(slides) - 1
        THEN [index |-> index + 1, stagePerSlide |-> stagePerSlide,
              moved |-> TRUE]
        ELSE IF curStage < lastStage
        THEN [index |-> index,
              stagePerSlide |-> [stagePerSlide EXCEPT ![index + 1] = curStage + 1],
              moved |-> TRUE]
        ELSE [index |-> index, stagePerSlide |-> stagePerSlide,
              moved |-> FALSE]

\* a bug: the slide that is left is rewound to its first stage
nextRewinds ==
    LET slide == slides[index + 1]
        curStage == stagePerSlide[index + 1]
        lastStage == stageCount(slide) - 1
    IN  IF curStage < lastStage
        THEN [index |-> index,
              stagePerSlide |-> [stagePerSlide EXCEPT ![index + 1] = curStage + 1],
              moved |-> TRUE]
        ELSE IF index < Len(slides) - 1
        THEN [index |-> index + 1,
              stagePerSlide |-> [stagePerSlide EXCEPT ![index + 1] = 0],
              moved |-> TRUE]
        ELSE [index |-> index, stagePerSlide |-> stagePerSlide,
              moved |-> FALSE]

\* a bug: at the end of the deck next() starts over at the first slide
nextWraps ==
    LET slide == slides[index + 1]
        curStage == stagePerSlide[index + 1]
        lastStage == stageCount(slide) - 1
    IN  IF curStage < lastStage
        THEN [index |-> index,
              stagePerSlide |-> [stagePerSlide EXCEPT ![index + 1] = curStage + 1],
              moved |-> TRUE]
        ELSE IF index < Len(slides) - 1
        THEN [index |-> index + 1, stagePerSlide |-> stagePerSlide,
              moved |-> TRUE]
        ELSE [index |-> 0, stagePerSlide |-> stagePerSlide,
              moved |-> Len(slides) > 1]

next ==
    LET slide == slides[index + 1]
        curStage == stagePerSlide[index + 1]
        lastStage == stageCount(slide) - 1
    IN  IF curStage < lastStage
        THEN [index |-> index,
              stagePerSlide |-> [stagePerSlide EXCEPT ![index + 1] = curStage + 1],
              moved |-> TRUE]
        ELSE IF index < Len(slides) - 1
        THEN [index |-> index + 1, stagePerSlide |-> stagePerSlide,
              moved |-> TRUE]
        ELSE [index |-> index, stagePerSlide |-> stagePerSlide,
              moved |-> FALSE]

\* a bug: curStage >= 0
prevPastFirst ==
    LET curStage == stagePerSlide[index + 1]
    IN  IF curStage >= 0
        THEN [index |-> index,
              stagePerSlide |-> [stagePerSlide EXCEPT ![index + 1] = curStage - 1],
              moved |-> TRUE]
        ELSE IF index > 0
        THEN [index |-> index - 1, stagePerSlide |-> stagePerSlide,
              moved |-> TRUE]
        ELSE [index |-> index, stagePerSlide |-> stagePerSlide,
              moved |-> FALSE]

\* a bug: the previous slide is restarted at stage 0
prevRestarts ==
    LET curStage == stagePerSlide[index + 1]
    IN  IF curStage > 0
        THEN [index |-> index,
              stagePerSlide |-> [stagePerSlide EXCEPT ![index + 1] = curStage - 1],
              moved |-> TRUE]
        ELSE IF index > 0
        THEN [index |-> index - 1,
              stagePerSlide |-> [stagePerSlide EXCEPT ![index] = 0],
              moved |-> TRUE]
        ELSE [index |-> index, stagePerSlide |-> stagePerSlide,
              moved |-> FALSE]

prev ==
    LET curStage == stagePerSlide[index + 1]
    IN  IF curStage > 0
        THEN [index |-> index,
              stagePerSlide |-> [stagePerSlide EXCEPT ![index + 1] = curStage - 1],
              moved |-> TRUE]
        ELSE IF index > 0
        THEN [index |-> index - 1, stagePerSlide |-> stagePerSlide,
              moved |-> TRUE]
        ELSE [index |-> index, stagePerSlide |-> stagePerSlide,
              moved |-> FALSE]

(***************************************************************************)
(* renderCurrent(notice) and cleanup(onData), as a key handler runs them   *)
(***************************************************************************)
Pending(i, stage, notice, op) ==
    [slide |-> i, stage |-> stage, notice |-> notice, op |-> op]

\* a bug: the notice argument is dropped
renderCurrentNoNotice(i, sps, notice, op) ==
    IF CallsRenderer(slides[i + 1], sps[i + 1])
    THEN /\ Len(inflight) < MaxInFlight
         /\ stdout' = Append(stdout, HeadOf(i, sps[i + 1], ""))
         /\ inflight' = Append(inflight, Pending(i, sps[i + 1], "", op))
    ELSE /\ stdout' = Append(Append(stdout, HeadOf(i, sps[i + 1], "")),
                             TailOf(i, sps[i + 1], ""))
         /\ inflight' = inflight

\* renderCurrent(notice) at slide i with the cursors sps, called for op
\* ("next", "prev", or "notice" for a boundary notice): the head is written;
\* the tail follows at once unless renderStage awaits a renderer
renderCurrent(i, sps, notice, op) ==
    IF CallsRenderer(slides[i + 1], sps[i + 1])
    THEN /\ Len(inflight) < MaxInFlight
         /\ stdout' = Append(stdout, HeadOf(i, sps[i + 1], notice))
         /\ inflight' = Append(inflight, Pending(i, sps[i + 1], notice, op))
    ELSE /\ stdout' = Append(Append(stdout, HeadOf(i, sps[i + 1], notice)),
                             TailOf(i, sps[i + 1], notice))
         /\ inflight' = inflight

\* a bug: the input stream is left in raw mode
cleanupKeepsRaw ==
    /\ running' = FALSE
    /\ rawMode' = rawMode
    /\ listener' = Max(0, listener - 1)
    /\ stdout' = Append(stdout, ExitNotice)
    /\ runPc' = [pc |-> "ended", i |-> 0, st |-> 0]

\* a bug: the running flag is not reset
cleanupKeepsRunning ==
    /\ running' = running
    /\ rawMode' = FALSE
    /\ listener' = Max(0, listener - 1)
    /\ stdout' = Append(stdout, ExitNotice)
    /\ runPc' = [pc |-> "ended", i |-> 0, st |-> 0]
    /\ UNCHANGED probeVars
    /\ UNCHANGED lastRun

\* cleanup(onData)
cleanup ==
    /\ running' = FALSE
    /\ rawMode' = FALSE
    /\ listener' = Max(0, listener - 1)
    /\ stdout' = Append(stdout, ExitNotice)
    /\ runPc' = [pc |-> "ended", i |-> 0, st |-> 0]

(***************************************************************************)
(* run(): the interactive loop                                             *)
(***************************************************************************)
RunInteractive ==
    /\ ~AlreadyRunning
    /\ Len(slides) > 0
    /\ ~BatchMode
    /\ Cardinality(Heads(stdout)) < MaxFrames
    /\ running' = TRUE
    /\ rawMode' = TRUE
    /\ thrown' = "none"
    /\ visited' = visited \cup {index}
    /\ IF CallsRenderer(slides[index + 1], stagePerSlide[index + 1])
       THEN /\ stdout' = Append(stdout, HeadOf(index, stagePerSlide[index + 1], ""))
            /\ runPc' = [pc |-> "initial", i |-> 0, st |-> 0]
            /\ UNCHANGED listener
       ELSE /\ stdout' = Append(Append(stdout,
                                       HeadOf(index, stagePerSlide[index + 1], "")),
                                TailOf(index, stagePerSlide[index + 1], ""))
            /\ runPc' = [pc |-> "attached", i |-> 0, st |-> 0]
            /\ listener' = listener + 1
    /\ UNCHANGED <<slides, index, stagePerSlide, opts, isTTY, inflight, ret,
                   unhandled, leftAt, keyed>>
    /\ UNCHANGED probeVars
    /\ lastRun' = "started"

\* the initial frame's renderStage returns: process.stdin.on("data", onData)
InitialResume ==
    /\ runPc.pc = "initial"
    /\ stdout' = Append(stdout, TailOf(index, stagePerSlide[index + 1], ""))
    /\ listener' = listener + 1
    /\ runPc' = [pc |-> "attached", i |-> 0, st |-> 0]
    /\ UNCHANGED <<slides, index, running, stagePerSlide, opts, isTTY,
                   rawMode, inflight, ret, thrown, unhandled, visited,
                   leftAt, keyed>>
    /\ UNCHANGED probeVars
    /\ UNCHANGED lastRun

\* the initial frame's renderStage is rejected: run() is rejected
InitialReject ==
    /\ runPc.pc = "initial"
    /\ runPc' = [pc |-> "failed", i |-> 0, st |-> 0]
    /\ thrown' = "RenderError"
    /\ UNCHANGED <<slides, index, running, stagePerSlide, opts, isTTY,
                   rawMode, listener, inflight, stdout, ret, unhandled,
                   visited, leftAt, keyed>>
    /\ UNCHANGED probeVars
    /\ UNCHANGED lastRun

QuitKeys == {"q", "^C"}
AdvanceKeys == {" ", "right"}
RetreatKeys == {"left"}
OtherKeys == {"x"}

\* the ghost record of a move from the current slide to slide i
Leave(i) ==
    IF i = index THEN UNCHANGED <<visited, leftAt>>
    ELSE /\ visited' = visited \cup {i}
         /\ leftAt' = [leftAt EXCEPT ![index + 1] = stagePerSlide[index + 1]]

\* onData(key), key === "q" || key === "\u0003"
KeyQuit ==
    /\ listener > 0
    /\ \E key \in QuitKeys :
        /\ keyed' = TRUE
        /\ IF ~running
           THEN UNCHANGED <<running, rawMode, listener, stdout, runPc>>
           ELSE cleanup
    /\ UNCHANGED <<slides, index, stagePerSlide, opts, isTTY, inflight, ret,
                   thrown, unhandled, visited, leftAt>>
    /\ UNCHANGED probeVars
    /\ UNCHANGED lastRun

\* a bug: the option is not consulted
ExitsOnLastNever == FALSE

\* onData, after a failed next(): if (this.opts.exitOnLastSlide)
ExitsOnLast == opts.exitOnLastSlide

\* onData(key), key === " " || key === "\u001b[C"
KeyAdvance ==
    /\ listener > 0
    /\ running
    /\ Cardinality(Heads(stdout)) < MaxFrames
    /\ \E key \in AdvanceKeys :
        LET n == next
        IN  /\ keyed' = TRUE
            /\ index' = n.index
            /\ stagePerSlide' = n.stagePerSlide
            /\ Leave(n.index)
            /\ IF n.moved
               THEN /\ renderCurrent(n.index, n.stagePerSlide, "", "next")
                    /\ ret' = [op |-> "next",
                               val |-> IF inflight' = inflight THEN "true"
                                       ELSE "pending"]
                    /\ UNCHANGED <<running, rawMode, listener, runPc>>
               ELSE /\ ret' = [op |-> "next", val |-> "false"]
                    /\ IF ExitsOnLast
                       THEN /\ cleanup
                            /\ UNCHANGED inflight
                       ELSE /\ renderCurrent(n.index, n.stagePerSlide,
                                             "(Last slide)", "notice")
                            /\ UNCHANGED <<running, rawMode, listener, runPc>>
    /\ UNCHANGED <<slides, opts, isTTY, thrown, unhandled>>
    /\ UNCHANGED probeVars
    /\ UNCHANGED lastRun

\* onData(key), key === "\u001b[D"
KeyRetreat ==
    /\ listener > 0
    /\ running
    /\ Cardinality(Heads(stdout)) < MaxFrames
    /\ \E key \in RetreatKeys :
        LET n == prev
        IN  /\ keyed' = TRUE
            /\ index' = n.index
            /\ stagePerSlide' = n.stagePerSlide
            /\ Leave(n.index)
            /\ IF n.moved
               THEN /\ renderCurrent(n.index, n.stagePerSlide, "", "prev")
                    /\ ret' = [op |-> "prev",
                               val |-> IF inflight' = inflight THEN "true"
                                       ELSE "pending"]
               ELSE /\ ret' = [op |-> "prev", val |-> "false"]
                    /\ renderCurrent(n.index, n.stagePerSlide,
                                     "(First slide)", "notice")
    /\ UNCHANGED <<slides, running, opts, isTTY, rawMode, listener, runPc,
                   thrown, unhandled>>
    /\ UNCHANGED probeVars
    /\ UNCHANGED lastRun

\* a bug: a key that matches no branch redraws the current frame
KeyOtherRedraws ==
    /\ listener > 0
    /\ running
    /\ Cardinality(Heads(stdout)) < MaxFrames
    /\ \E key \in OtherKeys :
        /\ keyed' = TRUE
        /\ renderCurrent(index, stagePerSlide, "", "notice")
    /\ UNCHANGED <<slides, index, running, stagePerSlide, opts, isTTY,
                   rawMode, listener, runPc, ret, thrown, unhandled, visited,
                   leftAt>>
    /\ UNCHANGED probeVars
    /\ UNCHANGED lastRun

\* onData(key), any other key: no branch is taken
KeyOther ==
    /\ listener > 0
    /\ \E key \in OtherKeys : keyed' = TRUE
    /\ UNCHANGED <<slides, index, running, stagePerSlide, opts, isTTY,
                   rawMode, listener, runPc, inflight, stdout, ret, thrown,
                   unhandled, visited, leftAt>>
    /\ UNCHANGED probeVars
    /\ UNCHANGED lastRun

\* inflight without its k-th element
Without(k) == SubSeq(inflight, 1, k - 1) \o SubSeq(inflight, k + 1, Len(inflight))

\* a key handler's awaited renderStage returns: renderCurrent writes the
\* tail, and next() / prev() returns true
RenderReturns ==
    \E k \in DOMAIN inflight :
        LET r == inflight[k]
        IN  /\ stdout' = Append(stdout, TailOf(r.slide, r.stage, r.notice))
            /\ inflight' = Without(k)
            /\ ret' = IF r.op = "notice" THEN ret
                      ELSE [op |-> r.op, val |-> "true"]
            /\ UNCHANGED <<slides, index, running, stagePerSlide, opts,
                           isTTY, rawMode, listener, runPc, thrown,
                           unhandled, visited, leftAt, keyed>>
            /\ UNCHANGED probeVars
            /\ UNCHANGED lastRun

\* a key handler's awaited renderStage is rejected: next() / prev() and
\* onData are rejected, and nothing awaits onData
RenderRejects ==
    \E k \in DOMAIN inflight :
        LET r == inflight[k]
        IN  /\ inflight' = Without(k)
            /\ ret' = IF r.op = "notice" THEN ret
                      ELSE [op |-> r.op, val |-> "threw"]
            /\ unhandled' = TRUE
            /\ UNCHANGED <<slides, index, running, stagePerSlide, opts,
                           isTTY, rawMode, listener, runPc, stdout, thrown,
                           visited, leftAt, keyed>>
            /\ UNCHANGED probeVars
            /\ UNCHANGED lastRun

\* the promise the latest started run() returned is resolved: the batch loop
\* has ended, or the interactive branch has reached the end of run()'s body,
\* which follows process.stdin.on("data", onData) at once
RunResolved == runPc.pc \in {"done", "attached", "ended"}

\* that promise is rejected: an awaited renderCurrent() threw inside run()
RunRejected == runPc.pc = "failed"

Next ==
    \/ \E ctx \in SlideInputs : addSlide(ctx)
    \/ RunEmpty
    \/ RunWhileRunning
    \/ RunBatch
    \/ BatchResume
    \/ BatchReject
    \/ RunInteractive
    \/ InitialResume
    \/ InitialReject
    \/ KeyQuit
    \/ KeyAdvance
    \/ KeyRetreat
    \/ KeyOther
    \/ RenderReturns
    \/ RenderRejects

Spec == Init /\ [][Next]_vars

\* the steps of the presenter when every renderer returns
NextReturning ==
    \/ \E ctx \in SlideInputs : addSlide(ctx)
    \/ RunEmpty
    \/ RunWhileRunning
    \/ RunBatch
    \/ BatchResume
    \/ RunInteractive
    \/ InitialResume
    \/ KeyQuit
    \/ KeyAdvance
    \/ KeyRetreat
    \/ KeyOther
    \/ RenderReturns

\* every renderer returns, and the batch loop resumes after each await: the
\* promise it awaits is settled, and the event loop runs its continuation
SpecReturning == Init /\ [][NextReturning]_vars /\ WF_vars(BatchResume)

(***************************************************************************)
(* renderStage called directly, on slides built from bounded parts.        *)
(***************************************************************************)
BaseContents ==
    {Undef, Str(<<"u">>), Str(<<"u", CR, LF, "v">>),
     Arr(<< <<"p">>, <<"q", LF, "r">> >>)}

\* the shapes and modes a stage is built from: <<shape, mode>>
StageKinds ==
    {<<"text", "undef">>, <<"text", "replace">>, <<"text", "append">>,
     <<"fn", "accumulate">>, <<"fn", "replace">>, <<"none", "append">>}

UpperLetter(k) == CASE k = 0 -> "A" [] k = 1 -> "B" [] k = 2 -> "C"
                    [] k = 3 -> "D" [] OTHER -> "E"
LowerLetter(k) == CASE k = 0 -> "a" [] k = 1 -> "b" [] k = 2 -> "c"
                    [] k = 3 -> "d" [] OTHER -> "e"

\* the stage at source index k: static text, nothing, or a renderer
ProbeStage(k, shape, mode) ==
    CASE shape = "text" -> MkStage(Str(<<UpperLetter(k)>>), NoRender, mode)
      [] shape = "none" -> MkStage(Undef, NoRender, mode)
      [] OTHER -> MkStage(Str(<<"!">>), Fn(LowerLetter(k)), mode)

ProbeStageSeqs(n) ==
    {[k \in 1..n |-> ProbeStage(k - 1, f[k][1], f[k][2])] :
        f \in [1..n -> StageKinds]}

ProbeOptions ==
    {MkOptions(<<"T">>, Undef, Undef, c, <<>>, r) :
        c \in BaseContents, r \in {NoRender, Fn("w")}}
    \cup UNION {{MkOptions(<<"T">>, Undef, Undef, c, ss, r) :
                    c \in BaseContents, ss \in ProbeStageSeqs(n),
                    r \in {NoRender}} : n \in 1..MaxStages}

InitRender ==
    /\ InitDeck
    /\ opts = DefaultOptions
    /\ isTTY = TRUE
    /\ \E ctx \in ProbeOptions : probeSlide = NewSlide(ctx)
    /\ probeStage = 0
    /\ probeOut = NoProbe

\* await probeSlide.renderStage(i)
CallRenderStage ==
    /\ \E i \in (0 - MaxOver)..(MaxStages - 1 + MaxOver) :
        LET out == renderStage(probeSlide, i)
        IN  /\ probeStage' = i
            /\ probeOut' = [called |-> TRUE, ok |-> out.ok, text |-> out.text]
    /\ UNCHANGED probeSlide
    /\ UNCHANGED deckVars

NextRender == CallRenderStage

SpecRender == InitRender /\ [][NextRender]_vars

(***************************************************************************)
(* renderCurrent(notice) write by write.  Each process.stdout.write is one *)
(* part, named after what it holds; the write of the indicator line, which *)
(* holds the indicator and then the presentation title, is two parts.  The *)
(* theme functions only wrap a part in colour codes and are left out.      *)
(***************************************************************************)
FramePart(name, text, notice) ==
    [part |-> name, slide |-> index, stage |-> stagePerSlide[index + 1],
     notice |-> notice, body |-> text]

\* slide.header ?? this.opts.header, and the same for the footer: only an
\* undefined slide field gives way to the default
Resolved(field, default) == IF field.t = "undef" THEN default ELSE field.v[1]

\* `${slidePart}${stagePart}`: "S i/N", then "T j/M" when the stage indicator
\* is enabled and the slide has more than one stage
IndicatorText ==
    LET totalStages == stageCount(slides[index + 1])
    IN  <<"S", Digit(index + 1), "/", Digit(Len(slides))>>
        \o (IF opts.showStageIndicator /\ totalStages > 1
            THEN <<"T", Digit(stagePerSlide[index + 1] + 1), "/",
                   Digit(totalStages)>>
            ELSE <<>>)

\* the writes before the await of renderStage
FrameHead ==
    LET slide == slides[index + 1]
        resolvedHeader == Resolved(slide.header, opts.header)
    IN  (IF opts.clearOnRender THEN <<FramePart("clear", <<>>, "")>> ELSE <<>>)
        \o (IF opts.showSlideIndicator
            THEN <<FramePart("indicator", IndicatorText, "")>>
                 \o (IF opts.title /= <<>>
                     THEN <<FramePart("presentationTitle", opts.title, "")>>
                     ELSE <<>>)
            ELSE <<>>)
        \o (IF resolvedHeader /= <<>>
            THEN <<FramePart("header", resolvedHeader, "")>> ELSE <<>>)
        \o <<FramePart("title", slide.title, "")>>

\* the writes after it, body being what renderStage returned
FrameTail(body, notice) ==
    LET slide == slides[index + 1]
        resolvedFooter == Resolved(slide.footer, opts.footer)
    IN  (IF body /= <<>> THEN <<FramePart("body", body, "")>> ELSE <<>>)
        \o (IF resolvedFooter /= <<>>
            THEN <<FramePart("footer", resolvedFooter, "")>> ELSE <<>>)
        \o (IF notice /= "" THEN <<FramePart("notice", <<>>, notice)>> ELSE <<>>)
        \o (IF opts.showControls
            THEN <<FramePart("controls", <<>>, "")>> ELSE <<>>)

\* the options a frame depends on, each at two values
FrameOptionSets ==
    {MkViewOptions(t, h, f, c, sc, si, ss, TRUE, FALSE, "all") :
        t \in {<<>>, <<"D">>}, h \in {<<>>, <<"h">>}, f \in {<<>>, <<"f">>},
        c \in BOOLEAN, sc \in BOOLEAN, si \in BOOLEAN, ss \in BOOLEAN}

\* slides with and without a header and a footer of their own (an empty one
\* included), with and without base content and stages
FrameSlideInputs ==
    {MkOptions(<<"T">>, h, f, c, ss, NoRender) :
        h \in {Undef, Str(<<>>), Str(<<"H">>)},
        f \in {Undef, Str(<<>>), Str(<<"F">>)},
        c \in {Undef, Str(<<"u">>)},
        ss \in {<<>>, <<MkStage(Str(<<"A">>), NoRender, "undef"),
                       MkStage(Str(<<"B">>), NoRender, "replace")>>}}

FrameNotices == {"", "(Last slide)", "(First slide)"}

\* a presenter with a deck of two slides, at either of them
InitFrame ==
    /\ opts \in FrameOptionSets
    /\ \E ctx \in FrameSlideInputs : \E k \in 0..1 :
        \E st \in 0..(stageCount(NewSlide(ctx)) - 1) :
            /\ slides = IF k = 0
                        THEN <<NewSlide(ctx), NewSlide(PlainOptions)>>
                        ELSE <<NewSlide(PlainOptions), NewSlide(ctx)>>
            /\ index = k
            /\ stagePerSlide = [j \in 1..2 |-> IF j = k + 1 THEN st ELSE 0]
    /\ running = FALSE
    /\ isTTY = TRUE
    /\ rawMode = FALSE
    /\ listener = 0
    /\ runPc = Idle
    /\ inflight = <<>>
    /\ stdout = <<>>
    /\ ret = NoRet
    /\ thrown = "none"
    /\ unhandled = FALSE
    /\ visited = {}
    /\ leftAt = <<-1, -1>>
    /\ keyed = FALSE
    /\ lastRun = "none"
    /\ probeSlide = NewSlide(PlainOptions)
    /\ probeStage = 0
    /\ probeOut = NoProbe

\* await this.renderCurrent(notice), the renderers returning
WriteFrame ==
    /\ stdout = <<>>
    /\ \E notice \in FrameNotices :
        stdout' = FrameHead
                  \o FrameTail(renderStage(slides[index + 1],
                                           stagePerSlide[index + 1]).text,
                               notice)
    /\ UNCHANGED <<slides, index, running, stagePerSlide, opts, isTTY,
                   rawMode, listener, runPc, inflight, ret, thrown,
                   unhandled, visited, leftAt, keyed, lastRun>>
    /\ UNCHANGED probeVars

NextFrame == WriteFrame

SpecFrame == InitFrame /\ [][NextFrame]_vars

(***************************************************************************)
(* An interactive run in which only the advance key is pressed, on a deck  *)
(* of any length up to MaxSlides: the key is pressed until the end of the  *)
(* deck has been reported MaxBoundary times.  The presenter presses it     *)
(* when the frame of the previous key is complete.                         *)
(***************************************************************************)
\* the decks of 1 to MaxSlides slides with one, two or three stages; the
\* first stage of each is static, so the initial frame awaits no renderer
AdvanceDecks ==
    UNION {[1..n -> {NewSlide(PlainOptions), NewSlide(TwoStageOptions),
                     NewSlide(ThreeStageOptions)}] : n \in 1..MaxSlides}

\* a presenter on a terminal with keyboard navigation, its deck added
InitAdvance ==
    /\ slides \in AdvanceDecks
    /\ index = 0
    /\ running = FALSE
    /\ stagePerSlide = [k \in 1..Len(slides) |-> 0]
    /\ \E e \in BOOLEAN :
        opts = MkViewOptions(<<>>, <<>>, <<>>, TRUE, TRUE, TRUE, TRUE, TRUE,
                             e, "all")
    /\ isTTY = TRUE
    /\ rawMode = FALSE
    /\ listener = 0
    /\ runPc = Idle
    /\ inflight = <<>>
    /\ stdout = <<>>
    /\ ret = NoRet
    /\ thrown = "none"
    /\ unhandled = FALSE
    /\ visited = {}
    /\ leftAt = [k \in 1..Len(slides) |-> -1]
    /\ keyed = FALSE
    /\ lastRun = "none"
    /\ probeSlide = NewSlide(PlainOptions)
    /\ probeStage = 0
    /\ probeOut = NoProbe

\* the one call of run()
RunOnce ==
    /\ lastRun = "none"
    /\ RunInteractive

\* the boundary notices started so far
BoundaryHeads(out) == {k \in Heads(out) : out[k].notice /= ""}

\* onData(key), key === " " || key === "\u001b[C"
PressAdvance ==
    /\ listener > 0
    /\ running
    /\ inflight = <<>>
    /\ Cardinality(BoundaryHeads(stdout)) < MaxBoundary
    /\ \E key \in AdvanceKeys :
        LET n == next
        IN  /\ keyed' = TRUE
            /\ index' = n.index
            /\ stagePerSlide' = n.stagePerSlide
            /\ Leave(n.index)
            /\ IF n.moved
               THEN /\ renderCurrent(n.index, n.stagePerSlide, "", "next")
                    /\ ret' = [op |-> "next",
                               val |-> IF inflight' = inflight THEN "true"
                                       ELSE "pending"]
                    /\ UNCHANGED <<running, rawMode, listener, runPc>>
               ELSE /\ ret' = [op |-> "next", val |-> "false"]
                    /\ IF ExitsOnLast
                       THEN /\ cleanup
                            /\ UNCHANGED inflight
                       ELSE /\ renderCurrent(n.index, n.stagePerSlide,
                                             "(Last slide)", "notice")
                            /\ UNCHANGED <<running, rawMode, listener, runPc>>
    /\ UNCHANGED <<slides, opts, isTTY, thrown, unhandled>>
    /\ UNCHANGED probeVars
    /\ UNCHANGED lastRun

NextAdvance ==
    \/ RunOnce
    \/ PressAdvance
    \/ RenderReturns

\* the key is pressed again and again, and every renderer returns
SpecAdvance ==
    /\ InitAdvance
    /\ [][NextAdvance]_vars
    /\ WF_vars(RunOnce)
    /\ WF_vars(PressAdvance)
    /\ WF_vars(RenderReturns)

(***************************************************************************)
(* Properties of the navigation state machine                              *)
(***************************************************************************)
\* the number of stages with a floor of 1
FlooredStages(slide) == IF Len(slide.stages) = 0 THEN 1 ELSE Len(slide.stages)

\* next() / prev() has returned true, or is suspended in the render of the
\* frame it moved to and returns true when the render returns
Succeeds(op) ==
    /\ ret'.op = op
    /\ \/ ret'.val = "true" /\ inflight' = inflight
       \/ /\ ret'.val = "pending"
          /\ Len(inflight') = Len(inflight) + 1
          /\ inflight'[Len(inflight')].op = op

\* a suspended next() / prev() whose render returns never reports failure
ResumesWithSuccess == RenderReturns => ret'.val \in {ret.val, "true"}

\* the head of the frame a key handler starts in this step
StartedFrame == stdout'[Len(stdout) + 1]

\* what next() does from the current position
NextContract ==
    LET cur == stagePerSlide[index + 1]
        last == FlooredStages(slides[index + 1]) - 1
    IN  IF cur < last
        THEN /\ index' = index
             /\ stagePerSlide' = [stagePerSlide EXCEPT ![index + 1] = cur + 1]
             /\ Succeeds("next")
        ELSE IF index + 1 < Len(slides)
        THEN /\ index' = index + 1
             /\ stagePerSlide' = stagePerSlide
             /\ Succeeds("next")
        ELSE /\ index' = index
             /\ stagePerSlide' = stagePerSlide
             /\ ret' = [op |-> "next", val |-> "false"]
             /\ thrown' = thrown
             /\ unhandled' = unhandled

(* C1: next() advances the stage cursor of the current slide by one when it
   is below stageCount-1 (slide index and the other cursors unchanged,
   success); otherwise moves to the following slide when there is one (no
   cursor changed, success); otherwise returns failure without throwing
   and leaves the slide index and all cursors unchanged.  In the two moving
   cases the call is either returned with true or suspended in the render
   of the new frame, from which it can only return true. *)
C1_NextTransition ==
    [][(KeyAdvance => NextContract) /\ ResumesWithSuccess]_vars

\* next() has advanced the stage cursor of slide 0 and returned true
C1_Witness ==
    /\ ret = [op |-> "next", val |-> "true"]
    /\ index = 0
    /\ Len(slides) >= 2
    /\ stagePerSlide[1] = 1
    /\ stdout[Len(stdout)] = TailOf(0, 1, "")

(* C2: in an interactive run, a next() invoked at the last stage of a slide
   that is not the last one moves to the following slide, shows that slide
   at stage 0, and succeeds. *)
C2_NextEntersStageZero ==
    [][(/\ KeyAdvance
        /\ stagePerSlide[index + 1] = FlooredStages(slides[index + 1]) - 1
        /\ index + 1 < Len(slides))
       => (/\ index' = index + 1
           /\ stagePerSlide'[index' + 1] = 0
           /\ StartedFrame = HeadOf(index + 1, 0, "")
           /\ Succeeds("next"))]_vars

\* next() has moved from the last stage of a two-stage slide 0 onto slide 1,
\* a slide with several stages, shown at stage 0
C2_Witness ==
    /\ ret = [op |-> "next", val |-> "true"]
    /\ keyed
    /\ index = 1
    /\ Len(slides[2].stages) >= 2
    /\ stagePerSlide = <<1, 0>>
    /\ stdout[Len(stdout)] = TailOf(1, 0, "")

\* what prev() does from the current position
PrevContract ==
    LET cur == stagePerSlide[index + 1]
    IN  IF cur > 0
        THEN /\ index' = index
             /\ stagePerSlide' = [stagePerSlide EXCEPT ![index + 1] = cur - 1]
             /\ Succeeds("prev")
        ELSE IF index > 0
        THEN /\ index' = index - 1
             /\ stagePerSlide' = stagePerSlide
             /\ Succeeds("prev")
        ELSE /\ index' = index
             /\ stagePerSlide' = stagePerSlide
             /\ ret' = [op |-> "prev", val |-> "false"]
             /\ thrown' = thrown
             /\ unhandled' = unhandled

(* C3: prev() mirrors next(): it decreases the stage cursor of the current
   slide by one when it is above 0 (slide index and the other cursors
   unchanged, success); otherwise moves to the previous slide when there is
   one (no cursor changed, success); otherwise, at stage 0 of slide 0,
   returns failure without throwing and leaves the slide index and all
   cursors unchanged. *)
C3_PrevTransition ==
    [][(KeyRetreat => PrevContract) /\ ResumesWithSuccess]_vars

\* prev() has failed at stage 0 of slide 0, after the deck was navigated
C3_Witness ==
    /\ ret = [op |-> "prev", val |-> "false"]
    /\ index = 0
    /\ stagePerSlide[1] = 0
    /\ 1 \in visited
    /\ stdout[Len(stdout)] = TailOf(0, 0, "(First slide)")

(* C4: a navigation step that moves to another slide changes no cursor, and
   when that slide was visited before, the frame shows it at the stage
   cursor it had when it was last left. *)
C4_ResumeOnReturn ==
    [][((KeyAdvance \/ KeyRetreat) /\ index' /= index)
       => (/\ stagePerSlide' = stagePerSlide
           /\ StartedFrame.slide = index'
           /\ index' \in visited
                => (/\ leftAt[index' + 1] >= 0
                    /\ StartedFrame.stage = leftAt[index' + 1]))]_vars

\* slide 0 was left at stage 1, slide 1 was visited and left again, and
\* slide 0 is shown at stage 1
C4_Witness ==
    /\ ret = [op |-> "prev", val |-> "true"]
    /\ index = 0
    /\ Len(slides) >= 2
    /\ leftAt[1] = 1
    /\ leftAt[2] = 0
    /\ stagePerSlide[1] = 1
    /\ stdout[Len(stdout)] = TailOf(0, 1, "")

(* C5: once a slide has been added, the slide index is in [0, slides.length)
   and every stage cursor is in [0, stageCount-1], stageCount being the
   number of stages with a floor of 1; there is one cursor per slide; and
   until a batch run starts or a key is dispatched the position is slide 0,
   stage 0. *)
C5_PositionInvariant ==
    Len(slides) >= 1 =>
        /\ index \in 0..(Len(slides) - 1)
        /\ Len(stagePerSlide) = Len(slides)
        /\ \A k \in 1..Len(slides) :
               stagePerSlide[k] \in 0..(FlooredStages(slides[k]) - 1)
        /\ (~keyed /\ (runPc.pc = "idle" \/ ~BatchMode))
               => (index = 0 /\ \A k \in 1..Len(slides) : stagePerSlide[k] = 0)

\* a batch run showing final stages has ended on a three-stage last slide
C5_Witness ==
    /\ runPc.pc = "done"
    /\ opts.nonInteractiveStages = "final"
    /\ Len(slides) = 3
    /\ index = 2
    /\ stagePerSlide[3] = 2

\* the frames a batch run shows for the slides from source index i on
RECURSIVE BatchFramesFrom(_)
BatchFramesFrom(i) ==
    IF i >= Len(slides) THEN <<>>
    ELSE (IF opts.nonInteractiveStages = "all" /\ Len(slides[i + 1].stages) > 0
          THEN [st \in 1..Len(slides[i + 1].stages) |-> <<i, st - 1>>]
          ELSE <<(<<i, FlooredStages(slides[i + 1]) - 1>>)>>)
         \o BatchFramesFrom(i + 1)

(* C6: in batch mode the frames written are, for each slide in deck order,
   one frame per stage 0..last when the expansion is "all" and the slide has
   stages, and otherwise one frame of the slide's last stage: what has been
   written is at every moment a prefix of that sequence (of its repetition,
   when run() is called again), each frame's head followed by its own tail,
   and a run that returns has written all of it. *)
C6_BatchFrames ==
    (BatchMode /\ Len(slides) >= 1) =>
        LET want == BatchFramesFrom(0)
            got == Frames(stdout)
        IN  /\ \A k \in 1..Len(got) : got[k] = want[((k - 1) % Len(want)) + 1]
            /\ \A k \in 1..Len(stdout) :
                   IF k % 2 = 1 THEN stdout[k].part = "head"
                   ELSE /\ stdout[k].part = "tail"
                        /\ stdout[k].slide = stdout[k - 1].slide
                        /\ stdout[k].stage = stdout[k - 1].stage
            /\ runPc.pc = "done"
                   => (Len(got) >= Len(want) /\ Len(got) % Len(want) = 0)

\* with expansion "all" and keyboard navigation disabled on a terminal, a
\* three-stage slide between two single-stage ones is shown stage by stage
C6_Witness ==
    /\ isTTY
    /\ ~opts.keyboardNavigation
    /\ opts.nonInteractiveStages = "all"
    /\ runPc.pc = "done"
    /\ Len(slides) = 3
    /\ Len(slides[2].stages) = 3
    /\ Frames(stdout) = <<(<<0, 0>>), <<1, 0>>, <<1, 1>>, <<1, 2>>, <<2, 0>>>>

(***************************************************************************)
(* Properties of Slide.renderStage                                         *)
(***************************************************************************)
\* the requested index brought into the range of the stages
Selected == 
    LET n == Len(probeSlide.stages)
    IN  IF probeStage < 0 THEN 0 ELSE IF probeStage > n - 1 THEN n - 1
        ELSE probeStage

\* the mode of the selected stage, accumulate when it has none
SelectedMode ==
    LET m == probeSlide.stages[Selected + 1].mode
    IN  IF m = "undef" THEN "accumulate" ELSE m

\* the characters of a text
Chars(text) == {text[k] : k \in 1..Len(text)}

\* the slide with base "u" and the static stages A, B, C, no mode given
SlideABC ==
    NewSlide(MkOptions(<<"T">>, Undef, Undef, Str(<<"u">>),
                       [k \in 1..3 |-> ProbeStage(k - 1, "text", "undef")],
                       NoRender))

(* C7: on a slide with N >= 1 stages renderStage(i) does not fail for an
   index out of range: for i >= N it returns the text of renderStage(N-1),
   and for i < 0 the text of renderStage(0). *)
C7_ClampsOutOfRange ==
    (probeOut.called /\ Len(probeSlide.stages) >= 1) =>
        LET n == Len(probeSlide.stages)
        IN  /\ probeStage >= n =>
                /\ probeOut.ok
                /\ renderStage(probeSlide, n - 1).ok
                /\ probeOut.text = renderStage(probeSlide, n - 1).text
            /\ probeStage < 0 =>
                /\ probeOut.ok
                /\ renderStage(probeSlide, 0).ok
                /\ probeOut.text = renderStage(probeSlide, 0).text

\* renderStage(4) on three stages, the last one a renderer, which was
\* called with stage 2
C7_Witness ==
    /\ probeOut.called
    /\ Len(probeSlide.stages) = 3
    /\ probeStage = 4
    /\ probeSlide.stages[3].render.t = "fn"
    /\ probeSlide.stages[3].mode = "replace"
    /\ probeSlide.content = Undef
    /\ probeOut.ok
    /\ probeOut.text = <<"c", "2">>

\* the realized lines of the stages 0..k while stage sel is selected
RECURSIVE RealizedUpTo(_, _, _)
RealizedUpTo(slide, k, sel) ==
    IF k < 0 THEN <<>>
    ELSE RealizedUpTo(slide, k - 1, sel) \o renderOne(slide, k, sel)

(* C8: when the selected stage i (after clamping) has mode accumulate, or
   no mode, renderStage(i) is the base content lines followed by the
   realized lines of the stages 0..i in index order, joined by line breaks;
   with base u and stages [A, B, C], renderStage(2) is u, A, B, C and
   renderStage(0) is u, A. *)
C8_Accumulate ==
    (/\ probeOut.called
     /\ Len(probeSlide.stages) >= 1
     /\ SelectedMode = "accumulate") =>
        /\ probeOut.ok
        /\ probeOut.text =
               join(normalizeToLines(probeSlide.content)
                        \o RealizedUpTo(probeSlide, Selected, Selected),
                    <<LF>>)
        /\ (probeSlide = SlideABC /\ probeStage = 2)
               => probeOut.text = <<"u", LF, "A", LF, "B", LF, "C">>
        /\ (probeSlide = SlideABC /\ probeStage = 0)
               => probeOut.text = <<"u", LF, "A">>

\* renderStage(2) on base u and the stages [A, B, C]
C8_Witness ==
    /\ probeOut.called
    /\ probeSlide = SlideABC
    /\ probeStage = 2
    /\ probeOut.text = <<"u", LF, "A", LF, "B", LF, "C">>

\* the slide with replace and append exchanged in every stage
SwapModes(slide) ==
    [slide EXCEPT !.stages =
        [k \in 1..Len(slide.stages) |->
            [slide.stages[k] EXCEPT !.mode =
                CASE @ = "replace" -> "append"
                  [] @ = "append" -> "replace"
                  [] OTHER -> @]]]

\* the letter by which the text of stage k is known
StageMark(slide, k) ==
    IF slide.stages[k + 1].render.t = "fn" THEN LowerLetter(k)
    ELSE UpperLetter(k)

(* C9: when the selected stage i has mode replace or append, renderStage(i)
   is the base content lines followed by the lines of stage i only, with
   nothing of any other stage; and the slide with replace and append
   exchanged gives the same text. *)
C9_ReplaceAppend ==
    (/\ probeOut.called
     /\ Len(probeSlide.stages) >= 1
     /\ SelectedMode \in {"replace", "append"}) =>
        /\ probeOut.ok
        /\ probeOut.text =
               join(normalizeToLines(probeSlide.content)
                        \o renderOne(probeSlide, Selected, Selected),
                    <<LF>>)
        /\ \A k \in 0..(Len(probeSlide.stages) - 1) :
               k /= Selected => StageMark(probeSlide, k) \notin Chars(probeOut.text)
        /\ renderStage(SwapModes(probeSlide), probeStage).ok
        /\ renderStage(SwapModes(probeSlide), probeStage).text = probeOut.text

\* renderStage(1) on base u and the stages [A, B, C], B with mode append
C9_Witness ==
    /\ probeOut.called
    /\ Len(probeSlide.stages) = 3
    /\ probeSlide.content = Str(<<"u">>)
    /\ probeSlide.stages[1] = ProbeStage(0, "text", "undef")
    /\ probeSlide.stages[2] = ProbeStage(1, "text", "append")
    /\ probeSlide.stages[3] = ProbeStage(2, "text", "undef")
    /\ probeStage = 1
    /\ probeOut.text = <<"u", LF, "B">>

(* C10: on a slide without stages renderStage returns the same text for
   every index: the custom renderer's output when one was given to the
   constructor, and otherwise the base content as it is (a string), its
   elements joined by line breaks (a list), or the empty text. *)
C10_UnstagedIgnoresIndex ==
    (probeOut.called /\ Len(probeSlide.stages) = 0) =>
        /\ probeOut.ok
        /\ probeOut.text =
               (IF probeSlide.render.t = "fn" THEN <<probeSlide.render.tag>>
                ELSE IF probeSlide.content = Str(<<"u">>) THEN <<"u">>
                ELSE IF probeSlide.content = Str(<<"u", CR, LF, "v">>)
                     THEN <<"u", CR, LF, "v">>
                ELSE IF probeSlide.content = Undef THEN <<>>
                ELSE <<"p", LF, "q", LF, "r">>)

\* renderStage(2) on a slide without stages that has a custom renderer
C10_Witness ==
    /\ probeOut.called
    /\ Len(probeSlide.stages) = 0
    /\ probeSlide.render = Fn("w")
    /\ probeSlide.content = Str(<<"u">>)
    /\ probeStage = 2
    /\ probeOut.text = <<"w">>

(***************************************************************************)
(* Properties of run() and of the interactive loop                         *)
(***************************************************************************)
\* the number of exit notices written
ExitCount(out) == Cardinality({k \in 1..Len(out) : out[k].part = "exit"})

\* a step that ends the interactive loop with a quit key (q or the interrupt
\* character)
QuitEnds == KeyQuit

\* a step that ends it with an advance key that cannot move, exit-on-last-
\* slide being configured
BoundaryEnds == KeyAdvance /\ ~next.moved /\ opts.exitOnLastSlide

(* C11: each of the three ways the interactive loop ends (q, the interrupt
   character, a failed advance with exit-on-last-slide) leaves raw mode off,
   no key listener attached and running false, and writes the exit notice
   once; the listener is detached and the exit notice written by these
   steps only; and while the loop is ended raw mode is off. *)
C11_LoopEndReleases ==
    [][/\ (QuitEnds \/ BoundaryEnds)
            => (/\ ~rawMode'
                /\ listener' = 0
                /\ ~running'
                /\ stdout' = Append(stdout, ExitNotice)
                /\ runPc'.pc = "ended")
       /\ (listener' < listener \/ ExitCount(stdout') /= ExitCount(stdout))
            => (QuitEnds \/ BoundaryEnds)
       /\ runPc'.pc = "ended" => (~rawMode' /\ listener' = 0 /\ ~running')]_vars

\* the loop was ended by an advance key at the last stage of the last slide
\* of a deck navigated to its end
C11_Witness ==
    /\ runPc.pc = "ended"
    /\ opts.exitOnLastSlide
    /\ ret = [op |-> "next", val |-> "false"]
    /\ Len(slides) >= 2
    /\ index = Len(slides) - 1
    /\ ~rawMode
    /\ listener = 0
    /\ ~running
    /\ ExitCount(stdout) = 1
    /\ stdout[Len(stdout)] = ExitNotice

(* C12: in interactive mode the result of run() does not complete while the
   key listener is attached; it completes only after the loop has been
   ended by the quit key, the interrupt character or a boundary exit. *)
C12_RunBlocksUntilLoopEnds ==
    (~BatchMode /\ RunResolved) => (listener = 0 /\ runPc.pc = "ended")

(* C13: whenever a renderer fails while a frame is being produced, in batch
   mode, on the initial interactive frame or on a frame started by an
   advance or retreat key, the failure rejects the result of run() and is
   not lost. *)
C13_RenderFailureReachesRun ==
    [][(BatchReject \/ InitialReject \/ RenderRejects)
       => (RunRejected' /\ thrown' = "RenderError" /\ ~unhandled')]_vars

(* C14: run() on a deck with no slides fails with an error; nothing has
   been written to the terminal, raw mode is off, no listener is attached
   and running is false. *)
C14_EmptyDeckRunFails ==
    (Len(slides) = 0 /\ lastRun /= "none") =>
        /\ lastRun = "threw"
        /\ thrown \in {"NoSlides", "TypeError"}
        /\ stdout = <<>>
        /\ ~rawMode
        /\ listener = 0
        /\ ~running
        /\ runPc = Idle

\* run() has failed on an empty deck of a presenter configured for the
\* interactive mode
C14_Witness ==
    /\ Len(slides) = 0
    /\ lastRun = "threw"
    /\ thrown = "NoSlides"
    /\ isTTY
    /\ opts.keyboardNavigation
    /\ stdout = <<>>
    /\ ~running

\* a step that is a call of run()
RunCalled == RunWhileRunning \/ RunEmpty \/ RunBatch \/ RunInteractive

(* C15: a run() call made while the presenter is running (a batch run
   suspended in a render, or the interactive loop attached) returns and
   changes nothing: no frame is written, the slide index and the cursors
   keep their values, no listener is attached; and at most one key listener
   is attached at any time. *)
C15_RunWhileRunningIsNoOp ==
    [][/\ (running /\ RunCalled)
            => (/\ lastRun' = "returned"
                /\ UNCHANGED <<stdout, index, stagePerSlide, listener,
                               running, rawMode, runPc, inflight, thrown>>)
       /\ listener <= 1
       /\ listener' <= 1]_vars

\* run() was called, and returned, while a batch run was suspended in the
\* renderer of a stage
C15_Witness ==
    /\ lastRun = "returned"
    /\ runPc.pc = "batch"
    /\ running
    /\ CallsRenderer(slides[runPc.i + 1], stagePerSlide[runPc.i + 1])
    /\ stdout[Len(stdout)] = HeadOf(index, stagePerSlide[index + 1], "")
    /\ listener = 0

(* C16: an addSlide call with a payload whose title is missing or empty
   fails at that call (the Slide constructor throws), nothing having been
   rendered, and leaves the slide sequence and the cursor list unchanged; a
   call with a titled payload appends the new slide and a cursor 0; so the
   two sequences have equal length after every sequence of calls. *)
C16_AddSlideValidates ==
    [][/\ \A ctx \in SlideInputs :
            addSlide(ctx) =>
                IF ctx.title = <<>>
                THEN /\ thrown' = "TypeError"
                     /\ slides' = slides
                     /\ stagePerSlide' = stagePerSlide
                     /\ stdout' = <<>>
                ELSE /\ thrown' = "none"
                     /\ slides' = Append(slides, NewSlide(ctx))
                     /\ stagePerSlide' = Append(stagePerSlide, 0)
       /\ Len(slides') = Len(stagePerSlide')
       /\ \A k \in 1..Len(slides') : slides'[k].title /= <<>>]_vars

\* two slides were added and a third addSlide call, without a title, failed
C16_Witness ==
    /\ thrown = "TypeError"
    /\ runPc = Idle
    /\ Len(slides) = 2
    /\ stagePerSlide = <<0, 0>>
    /\ stdout = <<>>

\* the position is the last stage of the last slide
AtLastBoundary ==
    /\ index = Len(slides) - 1
    /\ stagePerSlide[index + 1] = FlooredStages(slides[index + 1]) - 1

\* the position is stage 0 of slide 0
AtFirstBoundary == index = 0 /\ stagePerSlide[1] = 0

\* this step emits exactly one frame, of slide i at stage st with the given
\* notice: its head and tail are written, or its head is written and the
\* frame is suspended in the renderer of the stage
EmitsOneFrame(i, st, notice, op) ==
    \/ /\ stdout' = stdout \o <<HeadOf(i, st, notice), TailOf(i, st, notice)>>
       /\ inflight' = inflight
    \/ /\ stdout' = Append(stdout, HeadOf(i, st, notice))
       /\ inflight' = Append(inflight, Pending(i, st, notice, op))

\* the loop goes on: running, in raw mode, the listener attached
LoopGoesOn ==
    running' /\ rawMode' /\ listener' = 1 /\ runPc'.pc = "attached"

(* C17: in interactive mode, an advance key at the last stage of the last
   slide with exit-on-last-slide off, and a retreat key at stage 0 of slide
   0, each emit exactly one frame of the unchanged current slide and stage
   with the "(Last slide)" / "(First slide)" notice, move nothing and keep
   the loop running; a key that moves emits exactly one frame, of the new
   position, without a notice.  A frame suspended in a renderer is completed
   with its own notice when the renderer returns. *)
C17_BoundaryNotices ==
    [][/\ (KeyAdvance /\ AtLastBoundary /\ ~opts.exitOnLastSlide)
            => (/\ UNCHANGED <<index, stagePerSlide>>
                /\ EmitsOneFrame(index, stagePerSlide[index + 1],
                                 "(Last slide)", "notice")
                /\ LoopGoesOn)
       /\ (KeyRetreat /\ AtFirstBoundary)
            => (/\ UNCHANGED <<index, stagePerSlide>>
                /\ EmitsOneFrame(0, 0, "(First slide)", "notice")
                /\ LoopGoesOn)
       /\ (KeyAdvance /\ ~AtLastBoundary)
            => (/\ <<index', stagePerSlide'>> /= <<index, stagePerSlide>>
                /\ EmitsOneFrame(index', stagePerSlide'[index' + 1], "", "next")
                /\ LoopGoesOn)
       /\ (KeyRetreat /\ ~AtFirstBoundary)
            => (/\ <<index', stagePerSlide'>> /= <<index, stagePerSlide>>
                /\ EmitsOneFrame(index', stagePerSlide'[index' + 1], "", "prev")
                /\ LoopGoesOn)
       /\ RenderReturns
            => \E k \in DOMAIN inflight :
                   stdout' = Append(stdout, TailOf(inflight[k].slide,
                                                   inflight[k].stage,
                                                   inflight[k].notice))]_vars

\* an advance key at the end of a deck of several slides has shown the last
\* slide again with the notice, and the loop is still attached
C17_Witness ==
    /\ ~opts.exitOnLastSlide
    /\ Len(slides) >= 2
    /\ index = Len(slides) - 1
    /\ ret = [op |-> "next", val |-> "false"]
    /\ stdout[Len(stdout)] = TailOf(index, stagePerSlide[index + 1], "(Last slide)")
    /\ stdout[Len(stdout) - 1] = HeadOf(index, stagePerSlide[index + 1], "(Last slide)")
    /\ running
    /\ listener = 1

\* the notices written or started so far
Notices(out) == {out[k].notice : k \in 1..Len(out)} \ {""}

(* C18: with exit-on-last-slide configured, an advance key at the last stage
   of the last slide ends the interactive loop and emits no frame (only the
   exit notice is written, and nothing is moved); an advance key at any
   other position does not end the loop. *)
C18_ExitOnLastSlide ==
    [][/\ (KeyAdvance /\ AtLastBoundary /\ opts.exitOnLastSlide)
            => (/\ stdout' = Append(stdout, ExitNotice)
                /\ inflight' = inflight
                /\ UNCHANGED <<index, stagePerSlide>>
                /\ ~running'
                /\ listener' = 0
                /\ ~rawMode'
                /\ runPc'.pc = "ended")
       /\ (KeyAdvance /\ ~AtLastBoundary)
            => (/\ LoopGoesOn
                /\ ExitCount(stdout') = ExitCount(stdout))]_vars

\* a deck was advanced from its first slide to its end, and one more advance
\* key ended the loop; no notice was ever shown
C18_Witness ==
    /\ opts.exitOnLastSlide
    /\ runPc.pc = "ended"
    /\ Len(slides) >= 2
    /\ index = Len(slides) - 1
    /\ Notices(stdout) = {}
    /\ Len(stdout) >= 5
    /\ stdout[Len(stdout)] = ExitNotice
    /\ stdout[Len(stdout) - 1] = TailOf(index, stagePerSlide[index + 1], "")
    /\ ret = [op |-> "next", val |-> "false"]

(* C19: batch mode is selected exactly when there is no interactive input
   stream or keyboard navigation is disabled; in batch mode no key is read,
   raw mode is never entered and no listener is attached; and, every
   renderer returning, a batch run eventually completes, after the tail of
   its last frame, with running false. *)
C19_BatchRunCompletes ==
    /\ [][/\ RunBatch => (~isTTY \/ ~opts.keyboardNavigation)
          /\ RunInteractive => (isTTY /\ opts.keyboardNavigation)]_vars
    /\ []((~isTTY \/ ~opts.keyboardNavigation)
            => (~rawMode /\ listener = 0 /\ ~keyed /\ inflight = <<>>))
    /\ [](runPc.pc = "done"
            => (/\ ~running
                /\ index = Len(slides) - 1
                /\ stdout[Len(stdout)] =
                       TailOf(index, FlooredStages(slides[index + 1]) - 1, "")))
    /\ (runPc.pc = "batch") ~> (runPc.pc = "done" /\ ~running)

\* on a terminal with keyboard navigation disabled, a batch run over a deck
\* whose last slide has a stage renderer has completed
C19_Witness ==
    /\ isTTY
    /\ ~opts.keyboardNavigation
    /\ runPc.pc = "done"
    /\ ~running
    /\ Len(slides) >= 2
    /\ slides[Len(slides)] = NewSlide(ThreeStageOptions)
    /\ opts.nonInteractiveStages = "all"
    /\ ~rawMode
    /\ listener = 0

(***************************************************************************)
(* Properties of the frame                                                 *)
(***************************************************************************)
\* the names of the parts written, in order
PartNames(out) == [k \in 1..Len(out) |-> out[k].part]

\* the part named n when it is present, nothing otherwise
PartIf(present, n) == IF present THEN <<n>> ELSE <<>>

\* the header or footer of a frame: the slide's own when it has one, the
\* deck's default otherwise
Effective(field, default) == IF field.t /= "undef" THEN field.v[1] ELSE default

(* C20: a frame is the screen clear (if configured), the presentation title
   (if a title is configured), the slide-position indicator (if enabled),
   the header (if any), the slide title, the stage body (if not empty), the
   footer (if any), the notice (if given) and the controls legend (if
   enabled), each once and in this order. *)
C20_FramePartOrder ==
    stdout /= <<>> =>
        LET slide == slides[index + 1]
            body == renderStage(slide, stagePerSlide[index + 1]).text
        IN  PartNames(stdout) =
                PartIf(opts.clearOnRender, "clear")
                \o PartIf(opts.title /= <<>>, "presentationTitle")
                \o PartIf(opts.showSlideIndicator, "indicator")
                \o PartIf(Effective(slide.header, opts.header) /= <<>>, "header")
                \o <<"title">>
                \o PartIf(body /= <<>>, "body")
                \o PartIf(Effective(slide.footer, opts.footer) /= <<>>, "footer")
                \o PartIf(\E k \in 1..Len(stdout) : stdout[k].notice /= "",
                          "notice")
                \o PartIf(opts.showControls, "controls")

\* the places in a frame at which the part named n is written
PlacesOf(out, n) == {k \in 1..Len(out) : out[k].part = n}

(* C21: when a presentation title is configured, every frame holds the
   presentation title exactly once, and above the slide-position indicator,
   whether or not the indicator is shown. *)
C21_TitleOnceAboveIndicator ==
    (stdout /= <<>> /\ opts.title /= <<>>) =>
        /\ Cardinality(PlacesOf(stdout, "presentationTitle")) = 1
        /\ \A t \in PlacesOf(stdout, "presentationTitle") :
            \A i \in PlacesOf(stdout, "indicator") : t < i

(***************************************************************************)
(* Keys, renders in flight and the end of the loop                         *)
(***************************************************************************)
(* C22: in interactive mode a key other than q, the interrupt character,
   space, right-arrow and left-arrow is ignored: it writes nothing and starts
   no render, changes neither the slide index nor any cursor, and does not
   end the loop. *)
C22_OtherKeyIgnored ==
    [][KeyOther =>
        /\ stdout' = stdout
        /\ inflight' = inflight
        /\ index' = index
        /\ stagePerSlide' = stagePerSlide
        /\ running' = running
        /\ rawMode' = rawMode
        /\ listener' = listener
        /\ runPc' = runPc]_vars

\* only such a key has been pressed since the loop was attached: the initial
\* frame is all the output, and the loop goes on
C22_Witness ==
    /\ keyed
    /\ ret = NoRet
    /\ runPc.pc = "attached"
    /\ running
    /\ listener > 0
    /\ Cardinality(Heads(stdout)) = 1
    /\ ExitCount(stdout) = 0
    /\ inflight = <<>>

\* the head at place k of the output is followed at once by its own tail
TailFollows(out, k) ==
    /\ k < Len(out)
    /\ out[k + 1].part = "tail"
    /\ out[k + 1].slide = out[k].slide
    /\ out[k + 1].stage = out[k].stage
    /\ out[k + 1].notice = out[k].notice

(* C23: in interactive mode with asynchronous stage renderers at most one
   frame render is in flight at any time, and the parts of two frames never
   interleave: a frame whose head is written is completed before anything
   else is written. *)
C23_OneRenderInFlight ==
    /\ Len(inflight) <= 1
    /\ \A k \in 1..Len(stdout) :
        stdout[k].part = "head" => (k = Len(stdout) \/ TailFollows(stdout, k))

\* the parts of the output named n, as <<slide, stage, notice>>, in the order
\* written
PartsOf(out, n) ==
    LET RECURSIVE Collect(_)
        Collect(k) ==
            IF k > Len(out) THEN <<>>
            ELSE IF out[k].part = n
            THEN <<(<<out[k].slide, out[k].stage, out[k].notice>>)>>
                 \o Collect(k + 1)
            ELSE Collect(k + 1)
    IN  Collect(1)

\* s is the beginning of t
IsPrefix(s, t) == Len(s) <= Len(t) /\ \A k \in 1..Len(s) : s[k] = t[k]

(* C24: frames are emitted in the order their keys are processed, whatever
   the renderers' latencies: the bodies are written in the order in which
   the frames were started, and once every started frame is written the last
   one shows the current slide and stage. *)
C24_FramesInKeyOrder ==
    ~BatchMode =>
        /\ IsPrefix(PartsOf(stdout, "tail"), PartsOf(stdout, "head"))
        /\ (inflight = <<>> /\ runPc.pc = "attached") =>
            LET done == PartsOf(stdout, "tail")
            IN  /\ done /= <<>>
                /\ done[Len(done)][1] = index
                /\ done[Len(done)][2] = stagePerSlide[index + 1]

(* C25, as the code has it: the running flag is false before run(), after a
   batch run has returned and after the loop has ended; it is true during a
   batch run and whenever the interactive key listener is attached. *)
C25_RunningFlag ==
    /\ lastRun = "none" => ~running
    /\ runPc.pc = "done" => ~running
    /\ runPc.pc = "ended" => ~running
    /\ runPc.pc = "batch" => running
    /\ listener > 0 => running

\* a batch run between two of its frames: running, and no listener
C25_Witness ==
    /\ runPc.pc = "batch"
    /\ BatchMode
    /\ running
    /\ listener = 0
    /\ Frames(stdout) /= <<>>

(* C25 as stated: the running flag is true only if the interactive key
   listener is attached, so it is false before run(), during and after a
   batch run, and after the loop has ended. *)
C25_RunningOnlyWhileAttached ==
    /\ running => listener > 0
    /\ lastRun = "none" => ~running
    /\ runPc.pc \in {"batch", "done", "ended"} => ~running

(***************************************************************************)
(* The positions next() and prev() reach                                   *)
(***************************************************************************)
(* C26: in every state of an interactive run, whatever advance and retreat
   keys led to it, every slide after the current one has its stage cursor at
   0 and every slide before the current one has its cursor at its last
   stage, stageCount - 1. *)
C26_CursorsAroundCurrent ==
    (~BatchMode /\ slides /= <<>>) =>
        \A k \in 1..Len(slides) :
            /\ k > index + 1 => stagePerSlide[k] = 0
            /\ k < index + 1 => stagePerSlide[k] = stageCount(slides[k]) - 1

\* the middle slide of three, reached by keys through the stages of the
\* first; the third has not been entered
C26_Witness ==
    /\ ~BatchMode
    /\ keyed
    /\ Len(slides) = 3
    /\ index = 1
    /\ stagePerSlide[1] > 0
    /\ stagePerSlide[1] = stageCount(slides[1]) - 1
    /\ stagePerSlide[3] = 0
    /\ stageCount(slides[3]) > 1

(* C27: next() and prev() are inverse steps in an interactive run: where
   next() succeeds, prev() called right after it succeeds and restores the
   slide index and every stage cursor, and where prev() succeeds, next()
   called right after it does. *)
C27_NextPrevInverse ==
    [][/\ (KeyAdvance /\ next.moved) =>
            /\ (prev').moved
            /\ (prev').index = index
            /\ (prev').stagePerSlide = stagePerSlide
       /\ (KeyRetreat /\ prev.moved) =>
            /\ (next').moved
            /\ (next').index = index
            /\ (next').stagePerSlide = stagePerSlide]_vars

\* the advance key has led through the stages of the first slide to the
\* second, and the retreat key back to the stage at which the first was left
C27_Witness ==
    /\ ~BatchMode
    /\ ret = [op |-> "prev", val |-> "true"]
    /\ index = 0
    /\ 1 \in visited
    /\ stageCount(slides[1]) > 1
    /\ stagePerSlide[1] = stageCount(slides[1]) - 1
    /\ leftAt[1] = stagePerSlide[1]
    /\ stagePerSlide[2] = 0

(***************************************************************************)
(* Properties of a run in which only the advance key is pressed            *)
(***************************************************************************)
\* the <<slide, stage>> pairs of the slides from the k-th on, slide by slide
\* and stage by stage
RECURSIVE PairsFrom(_)
PairsFrom(k) ==
    IF k > Len(slides) THEN <<>>
    ELSE [j \in 1..FlooredStages(slides[k]) |-> <<k - 1, j - 1>>]
         \o PairsFrom(k + 1)

\* the sum of stageCount over the slides from the k-th on
RECURSIVE SumStagesFrom(_)
SumStagesFrom(k) ==
    IF k > Len(slides) THEN 0
    ELSE FlooredStages(slides[k]) + SumStagesFrom(k + 1)

\* the frames started so far, as <<slide, stage>>: those without a notice,
\* and those with one
Shown(out) ==
    LET hs == PartsOf(out, "head")
    IN  [k \in {j \in 1..Len(hs) : hs[j][3] = ""} |-> <<hs[k][1], hs[k][2]>>]

Reported(out) ==
    LET hs == PartsOf(out, "head")
    IN  {k \in 1..Len(hs) : hs[k][3] /= ""}

\* the frames started are the first m pairs of the deck, in order, each once,
\* the m-th being the current position; a boundary is reported only after
\* all of them, that is after (sum of stageCount) - 1 advances
VisitsInOrder ==
    stdout /= <<>> =>
        LET hs == PartsOf(stdout, "head")
            m == Len(hs) - Cardinality(Reported(stdout))
            all == PairsFrom(1)
        IN  /\ m >= 1
            /\ m <= Len(all)
            /\ Len(all) = SumStagesFrom(1)
            /\ \A k \in 1..m : hs[k] = <<all[k][1], all[k][2], "">>
            /\ <<index, stagePerSlide[index + 1]>> = all[m]
            /\ \A k \in Reported(stdout) :
                /\ k > m
                /\ m = SumStagesFrom(1)
                /\ hs[k] = <<all[m][1], all[m][2], "(Last slide)">>
            /\ (ret.op = "next" /\ ret.val = "false") => m = SumStagesFrom(1)

\* at the end of the deck the advance key moves nothing and next() returns
\* false
EndIsReported ==
    (AtLastBoundary /\ PressAdvance) =>
        /\ ret' = [op |-> "next", val |-> "false"]
        /\ index' = index
        /\ stagePerSlide' = stagePerSlide

(* C28: in an interactive run in which only the advance key is pressed, the
   frames shown are the (slide, stage) pairs of the deck, each once, slide
   by slide and stage by stage; exactly (sum of stageCount) - 1 advances
   succeed, every later one reports the boundary, and the end of the deck
   is eventually reached. *)
C28_AdvanceVisitsAll ==
    /\ []VisitsInOrder
    /\ [][EndIsReported]_vars
    /\ <>(AtLastBoundary /\ ret = [op |-> "next", val |-> "false"])

\* the end of a deck of three slides and at least six stages, reported
\* MaxBoundary times
C28_Witness ==
    /\ Len(slides) = 3
    /\ SumStagesFrom(1) >= 6
    /\ AtLastBoundary
    /\ ret = [op |-> "next", val |-> "false"]
    /\ Cardinality(Reported(stdout)) = MaxBoundary
    /\ Len(PartsOf(stdout, "head")) = SumStagesFrom(1) + MaxBoundary
    /\ inflight = <<>>

(***************************************************************************)
(* The end of the loop and of run()                                        *)
(***************************************************************************)
(* C29: once the interactive loop has ended (cleanup has run and the exit
   notice is written) nothing further is written to the terminal and neither
   the slide index nor any cursor changes, whatever renders were in flight
   when the quit key came. *)
C29_NothingAfterLoopEnd ==
    [][(runPc.pc = "ended" /\ runPc'.pc = "ended") =>
        /\ stdout' = stdout
        /\ index' = index
        /\ stagePerSlide' = stagePerSlide]_vars

(* C30: after a run() has completed, by returning or by failing because a
   renderer failed in batch mode or on the initial interactive frame, the
   presenter is not left marked as running with no loop attached: unless the
   key listener is attached, running is false and raw mode is off. *)
C30_CompletedRunNotLeftRunning ==
    ((RunResolved \/ RunRejected) /\ listener = 0) => (~running /\ ~rawMode)

====
